---- MODULE Spec2Model ----
(***************************************************************************)
(* A model of np_queuey's sqlite job queue (SqliteJobQueue) and of the     *)
(* guarded-execution helper update_status.                                 *)
(*                                                                         *)
(* Several worker processes share one sqlite database file.  Every queue   *)
(* method opens `with self.cursor()`, which runs 'begin exclusive', the    *)
(* statement, and then commit (or rollback on an Exception).  The database *)
(* runs in rollback-journal mode (journal_mode="delete"): a transaction    *)
(* writes the file in place and keeps the original content in the journal, *)
(* from which a rollback restores it.                                      *)
(*                                                                         *)
(* A process is a stack of frames, one per active Python call.  A step of  *)
(* the model is one step of a transaction scope (begin, statement, exit);  *)
(* the Python code that runs between two scopes touches no shared state    *)
(* and is folded into the step that ends the earlier scope (Resume).       *)
(***************************************************************************)
EXTENDS Integers, Sequences, FiniteSets, TLC

(***************************************************************************)
(* Bounds of the model.                                                    *)
(***************************************************************************)
MaxTime == 2       \* the clock runs over 1..MaxTime
MaxStmts == 2      \* statements a caller's own `with q.cursor()` body runs

Procs == {"w1", "w2"}      \* worker processes; a process's name is its HOSTNAME
Solo == "w1"               \* the only process of the sequential specification
Keys == {"S1", "S2"}       \* session folders (already normalised)
Priorities == {0, 5}
Messages == {"", "boom"}   \* str(exc) of the failures raised by a caller's work

(***************************************************************************)
(* Data model: sqlite NULL / Python None, one per column affinity.         *)
(***************************************************************************)
NULL == 0 - 1              \* None in a numeric column
NULLSTR == "None"          \* None in a text column

Columns == {"session", "added", "priority", "started", "hostname", "finished", "error"}

\* JobDataclass(session): the default job, `added` defaults to time.time()
JobDataclass(session, t) ==
    [session |-> session, added |-> t, priority |-> 0, started |-> NULL,
     hostname |-> NULLSTR, finished |-> NULL, error |-> NULLSTR]

get_job(session, t) == JobDataclass(session, t)

\* Python truthiness of a numeric and of a text attribute
TruthyNum(v) == v # NULL /\ v # 0
TruthyStr(v) == v # NULLSTR /\ v # ""

\* setattr(job, key, value) for every keyword argument: an attribute that
\* the job does not have yet is created
setattr(job, kwargs) ==
    [a \in (DOMAIN job) \cup (DOMAIN kwargs) |->
        IF a \in DOMAIN kwargs THEN kwargs[a] ELSE job[a]]

\* (mutant) a row that takes the column default for `error`
from_job_no_error(job) == [c \in Columns |-> IF c = "error" THEN NULLSTR ELSE job[c]]

\* from_job: the row of a job is its column attributes, in column order; the
\* session column is Session(job.session).folder, the session itself for the
\* folder names the keys are
from_job(job) == [c \in Columns |-> job[c]]

\* to_job: job_type(**dict(zip(columns, row)))
to_job(row) == [c \in Columns |-> row[c]]

(***************************************************************************)
(* SQL statements on the table (a set of rows).                            *)
(***************************************************************************)
SelectWhere(tbl, session) == {r \in tbl : r.session = session}

\* (mutant) a plain INSERT into a table whose `session` is not a key
InsertOnly(tbl, row) == tbl \cup {row}

\* INSERT OR REPLACE with `session` PRIMARY KEY: the conflicting row is
\* deleted, then the new row is inserted
InsertOrReplace(tbl, row) == (tbl \ SelectWhere(tbl, row.session)) \cup {row}

\* (mutant) DELETE without its WHERE clause
DeleteAll(tbl, session) == {}

\* DELETE FROM table WHERE session = ?
DeleteWhere(tbl, session) == tbl \ SelectWhere(tbl, session)

CountAll(tbl) == Cardinality(tbl)

\* (mutant) ORDER BY priority DESC alone
InOrderByPriority(r1, r2) == r1.priority >= r2.priority

\* ORDER BY priority DESC, added ASC
InOrder(r1, r2) ==
    \/ r1.priority > r2.priority
    \/ r1.priority = r2.priority /\ r1.added <= r2.added

IsSorted(seq) ==
    \A i, j \in 1..Len(seq) : i < j => InOrder(seq[i], seq[j])

\* every list fetchall() may return for a result set: sqlite fixes the order
\* of the rows only as far as ORDER BY says
Listings(rows) ==
    {seq \in [1..Cardinality(rows) -> rows] :
        \A i, j \in 1..Cardinality(rows) : i # j => seq[i] # seq[j]}

SelectOrdered(tbl) == {seq \in Listings(tbl) : IsSorted(seq)}

(***************************************************************************)
(* State.                                                                  *)
(***************************************************************************)
VARIABLES
    db,        \* the table as the database file holds it: a set of rows
    journal,   \* journal[p]: the table as it was when p's transaction began
    inTxn,     \* inTxn[p]: p's connection has an open transaction
    now,       \* the value time.time() returns
    stack,     \* stack[p]: the frames of p's running call, innermost last
    op,        \* op[p]: the call p makes, and how it ended
    committed, \* the table as the last commit left it (history)
    seen       \* seen[p]: the rows of its key the store has held during p's
               \* is_started call, one set of rows per commit (history)

vars == <<db, journal, inTxn, now, stack, op, committed, seen>>

(***************************************************************************)
(* Frames.  fn is the method, pc the place in it; key, job, kwargs, hits,  *)
(* idx and exc are its arguments and locals.                               *)
(***************************************************************************)
NoJob == <<>>
NoKwargs == <<>>

Frame(fn, pc, key, job, kwargs) ==
    [job |-> job, kwargs |-> kwargs, fn |-> fn, pc |-> pc, key |-> key,
     hits |-> <<>>, idx |-> 0, exc |-> ""]

\* a method whose body is one `with self.cursor()` block
Scoped == {"getitem", "setitem", "delitem", "contains", "len", "iter", "scope"}

Top(p) == stack[p][Len(stack[p])]
Rest(p) == SubSeq(stack[p], 1, Len(stack[p]) - 1)
Running(p) == stack[p] # <<>>
At(p, fn, pc) == Running(p) /\ Top(p).fn = fn /\ Top(p).pc = pc
InBody(p) == Running(p) /\ Top(p).fn \in Scoped /\ Top(p).pc = "body"

(***************************************************************************)
(* What a call hands back: a value, or an exception with its str().        *)
(***************************************************************************)
Ok(val) == [exc |-> "", val |-> val, kind |-> "ok"]
Raise(exc, msg) == [exc |-> exc, val |-> msg, kind |-> "exc"]
None == "None"
StillRunning == [exc |-> "", val |-> None, kind |-> "running"]

\* the exceptions that are not instances of Exception
BaseOnly == {"KeyboardInterrupt"}

(***************************************************************************)
(* The state transitions, as the keyword arguments each hands to update.   *)
(***************************************************************************)
FinishedKwargs == [finished |-> 1]
StartedKwargs(t, hostname) == [started |-> t, hostname |-> hostname, finished |-> 0]
QueuedKwargs == [started |-> NULL, hostname |-> NULLSTR, finished |-> NULL, errored |-> NULL]
ErroredKwargs(error) == [error |-> error]

\* update(session, **kwargs) begins with setdefault(session, get_job(session)),
\* whose first step is self[session]
CallUpdate(key, kwargs, t) ==
    << Frame("update", "get", key, get_job(key, t), kwargs),
       Frame("getitem", "begin", key, NoJob, NoKwargs) >>

\* update(job, **kwargs) on a job object: get_job(job) is the job itself
CallUpdateJob(job, kwargs) ==
    << Frame("update", "get", job.session, job, kwargs),
       Frame("getitem", "begin", job.session, NoJob, NoKwargs) >>

CallSetItem(key, job) == << Frame("setitem", "begin", key, job, NoKwargs) >>
CallGetItem(key) == << Frame("getitem", "begin", key, NoJob, NoKwargs) >>
CallContains(key) == << Frame("contains", "begin", key, NoJob, NoKwargs) >>

set_finished(key, t) == CallUpdate(key, FinishedKwargs, t)
set_started(key, t, hostname) == CallUpdate(key, StartedKwargs(t, hostname), t)
set_queued(key, t) == CallUpdate(key, QueuedKwargs, t)
set_errored(key, error, t) == CallUpdate(key, ErroredKwargs(error), t)

CallIsStarted(key) ==
    << Frame("is_started", "started", key, NoJob, NoKwargs) >> \o CallGetItem(key)

(***************************************************************************)
(* The Python code between two transaction scopes.  When a callee hands    *)
(* back `r`, the caller's frame `f` either makes its next call (Call) or   *)
(* itself hands back a result (Return).                                    *)
(***************************************************************************)
Call(f, frames) == [k |-> "call", frame |-> f, push |-> frames, ret |-> StillRunning]
Return(r) == [k |-> "return", frame |-> NoJob, push |-> <<>>, ret |-> r]

\* (mutant) an update that writes the changes onto the default job, not
\* onto the stored one
updateFromDefault(f, r) ==
    CASE f.pc = "get" /\ r.kind = "ok" ->
            Call([f EXCEPT !.pc = "put"], CallSetItem(f.key, setattr(f.job, f.kwargs)))
      [] f.pc = "get" /\ r.kind = "exc" /\ r.exc = "KeyError" ->
            Call([f EXCEPT !.pc = "default"], CallSetItem(f.key, f.job))
      [] f.pc = "default" /\ r.kind = "ok" ->
            Call([f EXCEPT !.pc = "put"], CallSetItem(f.key, setattr(f.job, f.kwargs)))
      [] f.pc = "put" /\ r.kind = "ok" -> Return(Ok(None))
      [] OTHER -> Return(r)

\* update: job = self.setdefault(key, get_job(key)); setattr(...); self[key] = job
update(f, r) ==
    CASE f.pc = "get" /\ r.kind = "ok" ->
            Call([f EXCEPT !.pc = "put"], CallSetItem(f.key, setattr(r.val, f.kwargs)))
      [] f.pc = "get" /\ r.kind = "exc" /\ r.exc = "KeyError" ->
            Call([f EXCEPT !.pc = "default"], CallSetItem(f.key, f.job))
      [] f.pc = "default" /\ r.kind = "ok" ->
            Call([f EXCEPT !.pc = "put"], CallSetItem(f.key, setattr(f.job, f.kwargs)))
      [] f.pc = "put" /\ r.kind = "ok" -> Return(Ok(None))
      [] OTHER -> Return(r)

\* add_or_update: self.update(key, **kwargs); self.set_queued(key)
add_or_update(f, r, t) ==
    CASE f.pc = "update" /\ r.kind = "ok" ->
            Call([f EXCEPT !.pc = "set_queued"], set_queued(f.key, t))
      [] OTHER -> Return(r)

\* is_started: self[key].started and not self[key].finished and not self[key].error,
\* three lookups; the value handed back is the truth value of the expression
is_started(f, r) ==
    CASE r.kind # "ok" -> Return(r)
      [] f.pc = "started" ->
            IF TruthyNum(r.val.started)
            THEN Call([f EXCEPT !.pc = "finished"], CallGetItem(f.key))
            ELSE Return(Ok(FALSE))
      [] f.pc = "finished" ->
            IF TruthyNum(r.val.finished)
            THEN Return(Ok(FALSE))
            ELSE Call([f EXCEPT !.pc = "error"], CallGetItem(f.key))
      [] f.pc = "error" -> Return(Ok(~TruthyStr(r.val.error)))

\* next: for job in self: if not self.is_started(job): return job
NextScan(f) ==
    IF f.idx > Len(f.hits)
    THEN Return(Ok(NoJob))
    ELSE Call([f EXCEPT !.pc = "check"], CallIsStarted(f.hits[f.idx].session))

next(f, r) ==
    CASE r.kind # "ok" -> Return(r)
      [] f.pc = "iter" -> NextScan([f EXCEPT !.hits = r.val, !.idx = 1])
      [] f.pc = "check" ->
            IF r.val THEN NextScan([f EXCEPT !.idx = f.idx + 1])
                     ELSE Return(Ok(f.hits[f.idx]))

\* the set_* call update_status makes on its job: f.job when the caller
\* handed in a job it got from the queue, else a job built for f.key
Transition(f, kwargs, t) ==
    IF f.job = NoJob THEN CallUpdate(f.key, kwargs, t) ELSE CallUpdateJob(f.job, kwargs)

\* update_status, from the return of the set_* call it made; idx = 1 once the
\* generator has yielded
update_status(f, r, t) ==
    CASE f.pc = "set_started" /\ r.kind = "ok" ->
            Call([f EXCEPT !.pc = "work", !.idx = 1], <<>>)
      [] f.pc = "set_started" /\ r.kind = "exc" /\ r.exc \notin BaseOnly ->
            Call([f EXCEPT !.pc = "set_errored"], Transition(f, ErroredKwargs(r.val), t))
      [] f.pc = "set_started" /\ r.kind = "exc" /\ r.exc \in BaseOnly ->
            Call([f EXCEPT !.pc = "set_queued", !.exc = r.exc], Transition(f, QueuedKwargs, t))
      [] f.pc = "set_errored" /\ r.kind = "ok" ->
            IF f.idx = 1 THEN Return(Ok(None))
                         ELSE Return(Raise("RuntimeError", "generator didn't yield"))
      [] f.pc = "set_queued" /\ r.kind = "ok" -> Return(Raise(f.exc, ""))
      [] OTHER -> Return(r)

\* the first frames of next() and of `with update_status(queue, job)`
CallNext == << Frame("next", "iter", "", NoJob, NoKwargs), Frame("iter", "begin", "", NoJob, NoKwargs) >>

CallUpdateStatus(job, t, hostname) ==
    << Frame("update_status", "set_started", job.session, job, NoKwargs) >>
        \o CallUpdateJob(job, StartedKwargs(t, hostname))

\* a worker's loop around the queue:
\*     while (job := q.next()) is not None:
\*         with update_status(q, job): <work>
\* hits lists the sessions it has run, idx = 1 once it has run one again
worker(f, r, t) ==
    CASE f.pc = "next" /\ r.kind = "ok" /\ r.val = NoJob -> Return(Ok(f.hits))
      [] f.pc = "next" /\ r.kind = "ok" /\ r.val # NoJob ->
            LET again == \E i \in 1..Len(f.hits) : f.hits[i] = r.val.session
            IN  Call([f EXCEPT !.pc = "run",
                               !.hits = IF again THEN f.hits ELSE Append(f.hits, r.val.session),
                               !.idx = IF again THEN 1 ELSE f.idx],
                     CallUpdateStatus(r.val, t, f.kwargs.hostname))
      [] f.pc = "run" /\ r.kind = "ok" -> Call([f EXCEPT !.pc = "next"], CallNext)
      [] OTHER -> Return(r)

Continue(f, r, t) ==
    CASE f.fn = "update" -> update(f, r)
      [] f.fn = "worker" -> worker(f, r, t)
      [] f.fn = "add_or_update" -> add_or_update(f, r, t)
      [] f.fn = "is_started" -> is_started(f, r)
      [] f.fn = "next" -> next(f, r)
      [] f.fn = "update_status" -> update_status(f, r, t)

\* hand `r` to the frames `stk` of the callers, innermost last
RECURSIVE Resume(_, _, _)
Resume(stk, r, t) ==
    IF stk = <<>>
    THEN [stack |-> <<>>, ret |-> r]
    ELSE LET f == stk[Len(stk)]
             rest == SubSeq(stk, 1, Len(stk) - 1)
             c == Continue(f, r, t)
         IN  IF c.k = "call"
             THEN [stack |-> rest \o <<c.frame>> \o c.push, ret |-> StillRunning]
             ELSE Resume(rest, c.ret, t)

(***************************************************************************)
(* Top-level calls.                                                        *)
(***************************************************************************)
NoArg == "None"
NoOp == [key |-> "", ret |-> Ok(None), name |-> "", arg |-> NoArg, at |-> 0]

\* The queue is constructed on the shared database file, which holds the
\* jobs earlier runs left: per session none, or a job that is queued (with
\* either priority), started, finished or errored, as the state transitions
\* leave it.
PriorHost == "w2"
PriorTimes == {0, 1}       \* when the earlier runs added their jobs

PriorJobs(session) ==
    LET queued(x, a) == setattr(get_job(session, a), [priority |-> x])
        started == setattr(queued(0, 1), StartedKwargs(1, PriorHost))
    IN  {queued(x, a) : x \in Priorities, a \in PriorTimes} \cup
        {started, setattr(started, FinishedKwargs), setattr(started, ErroredKwargs("boom"))}

PriorRows(keys) == {from_job(job) : job \in UNION {PriorJobs(k) : k \in keys}}

Tables(keys) ==
    {tbl \in SUBSET PriorRows(keys) :
        \A r1, r2 \in tbl : r1.session = r2.session => r1 = r2}

InitWith(tables) ==
    /\ db \in tables
    /\ committed = db
    /\ seen = [p \in Procs |-> {}]
    /\ journal = [p \in Procs |-> {}]
    /\ inTxn = [p \in Procs |-> FALSE]
    /\ now = 1
    /\ stack = [p \in Procs |-> <<>>]
    /\ op = [p \in Procs |-> NoOp]

Init == InitWith(Tables(Keys))

Called(p) == op[p].name # ""
Done(p) == Called(p) /\ ~Running(p)

\* p calls a method whose first frames are `frames`
Start(p, name, key, arg, frames) ==
    /\ ~Called(p)
    /\ stack' = [stack EXCEPT ![p] = frames]
    /\ op' = [op EXCEPT ![p] = [key |-> key, ret |-> StillRunning, name |-> name,
                                arg |-> arg, at |-> now]]
    /\ seen' = [seen EXCEPT ![p] = IF name = "is_started"
                                   THEN {SelectWhere(committed, key)} ELSE {}]
    /\ UNCHANGED <<db, journal, inTxn, now, committed>>

\* the innermost frame of p is done and hands `r` to its callers
Finish(p, r) ==
    LET res == Resume(Rest(p), r, now)
    IN  /\ stack' = [stack EXCEPT ![p] = res.stack]
        /\ op' = [op EXCEPT ![p].ret = res.ret]

\* the jobs a caller stores directly: the default job, one with a priority,
\* and one with every field set
JobArgs(session, t, hostname) ==
    { setattr(get_job(session, t), kw) :
        kw \in {[priority |-> x] : x \in Priorities} \cup
               {[started |-> t, hostname |-> hostname, finished |-> 1, error |-> "boom"]} }

\* the field changes a caller hands to update and add_or_update
KwargsArgs == {[priority |-> x] : x \in Priorities} \cup {[finished |-> 0]}

GetItem(p, key) == Start(p, "getitem", key, NoArg, CallGetItem(key))

\* __setitem__ raises ValueError before it opens a scope when the sessions differ
SetItem(p, key, job) ==
    /\ job.session = key
    /\ Start(p, "setitem", key, job, CallSetItem(key, job))

SetItemMismatch(p, key, job) ==
    /\ job.session # key
    /\ ~Called(p)
    /\ op' = [op EXCEPT ![p] = [key |-> key,
                                ret |-> Raise("ValueError", "`session` values don't match"),
                                name |-> "setitem", arg |-> job, at |-> now]]
    /\ UNCHANGED <<db, journal, inTxn, now, stack, committed, seen>>

DelItem(p, key) ==
    Start(p, "delitem", key, NoArg, << Frame("delitem", "begin", key, NoJob, NoKwargs) >>)

Contains(p, key) ==
    Start(p, "contains", key, NoArg, CallContains(key))

LenCall(p) ==
    Start(p, "len", "", NoArg, << Frame("len", "begin", "", NoJob, NoKwargs) >>)

CallIter == << Frame("iter", "begin", "", NoJob, NoKwargs) >>

Iter(p) == Start(p, "iter", "", NoArg, CallIter)

Update(p, key, kwargs) == Start(p, "update", key, kwargs, CallUpdate(key, kwargs, now))

AddOrUpdate(p, key, kwargs) ==
    Start(p, "add_or_update", key, kwargs,
          << Frame("add_or_update", "update", key, NoJob, kwargs) >>
              \o CallUpdate(key, kwargs, now))

SetFinished(p, key) == Start(p, "set_finished", key, NoArg, set_finished(key, now))
SetStarted(p, key) == Start(p, "set_started", key, NoArg, set_started(key, now, p))
SetQueued(p, key) == Start(p, "set_queued", key, NoArg, set_queued(key, now))
SetErrored(p, key, error) == Start(p, "set_errored", key, error, set_errored(key, error, now))
IsStarted(p, key) == Start(p, "is_started", key, NoArg, CallIsStarted(key))

NextCall(p) ==
    Start(p, "next", "", NoArg,
          << Frame("next", "iter", "", NoJob, NoKwargs) >> \o CallIter)

\* with update_status(queue, job): the first statement is queue.set_started(job)
NoWork == [msg |-> "", work |-> ""]

UpdateStatus(p, key) ==
    Start(p, "update_status", key, NoWork,
          << Frame("update_status", "set_started", key, NoJob, NoKwargs) >>
              \o set_started(key, now, p))

\* a worker process starts its loop
Worker(p) ==
    Start(p, "worker", "", NoArg,
          << Frame("worker", "next", "", NoJob, [hostname |-> p]) >> \o CallNext)

\* a caller's own `with q.cursor() as c:` block; the call's argument counts
\* the statements the block has executed
Scope(p) ==
    Start(p, "scope", "", 0, << Frame("scope", "begin", "", NoJob, NoKwargs) >>)

(***************************************************************************)
(* cursor(): the exclusive transaction scope.                              *)
(***************************************************************************)
\* (mutant) 'begin' without 'exclusive': granted whatever the others hold
CanBeginDeferred(p) == TRUE

\* 'begin exclusive' is granted when no other connection holds a lock on the file
CanBegin(p) == \A q \in Procs \ {p} : ~inTxn[q]

\* self.db.commit(): the journal is deleted, the file keeps the writes
commit(p) ==
    /\ inTxn' = [inTxn EXCEPT ![p] = FALSE]
    /\ journal' = [journal EXCEPT ![p] = {}]
    /\ committed' = db
    /\ seen' = [q \in Procs |->
                  IF op[q].name = "is_started" /\ Running(q)
                  THEN seen[q] \cup {SelectWhere(db, op[q].key)} ELSE seen[q]]
    /\ UNCHANGED db

\* (mutant) a rollback that ends the transaction and keeps its writes
rollbackKeepsWrites(p) ==
    /\ db' = db
    /\ inTxn' = [inTxn EXCEPT ![p] = FALSE]
    /\ journal' = [journal EXCEPT ![p] = {}]
    /\ UNCHANGED <<committed, seen>>

\* self.db.rollback(): the file is restored from the journal; nothing to do
\* on a connection with no open transaction
rollback(p) ==
    /\ db' = IF inTxn[p] THEN journal[p] ELSE db
    /\ inTxn' = [inTxn EXCEPT ![p] = FALSE]
    /\ journal' = [journal EXCEPT ![p] = {}]
    /\ UNCHANGED <<committed, seen>>

SetTop(p, f) == stack' = [stack EXCEPT ![p] = Rest(p) \o <<f>>]

\* cursor.execute('begin exclusive') succeeds
Begin(p) ==
    /\ Running(p) /\ Top(p).fn \in Scoped /\ Top(p).pc = "begin"
    /\ ~inTxn[p]
    /\ CanBegin(p)
    /\ inTxn' = [inTxn EXCEPT ![p] = TRUE]
    /\ journal' = [journal EXCEPT ![p] = db]
    /\ SetTop(p, [Top(p) EXCEPT !.pc = "body"])
    /\ UNCHANGED <<db, now, op, committed, seen>>

\* another connection holds the lock for the whole busy timeout: 'begin
\* exclusive' raises OperationalError, caught by `except Exception`
BeginLocked(p) ==
    /\ Running(p) /\ Top(p).fn \in Scoped /\ Top(p).pc = "begin"
    /\ ~inTxn[p]
    /\ ~CanBegin(p)
    /\ rollback(p)
    /\ Finish(p, Raise("OperationalError", "database is locked"))
    /\ UNCHANGED now

\* the connection still has the transaction an interrupted scope left open:
\* 'begin exclusive' raises OperationalError, and the handler rolls that
\* transaction back
BeginNested(p) ==
    /\ Running(p) /\ Top(p).fn \in Scoped /\ Top(p).pc = "begin"
    /\ inTxn[p]
    /\ rollback(p)
    /\ Finish(p, Raise("OperationalError", "cannot start a transaction within a transaction"))
    /\ UNCHANGED now

\* SELECT * FROM table WHERE session = ?  (__getitem__, __contains__)
Select(p) ==
    /\ InBody(p) /\ Top(p).fn \in {"getitem", "contains"}
    /\ \E hits \in Listings(SelectWhere(db, Top(p).key)) :
          SetTop(p, [Top(p) EXCEPT !.pc = "exit", !.hits = hits])
    /\ UNCHANGED <<db, journal, inTxn, now, op, committed, seen>>

\* INSERT OR REPLACE INTO table VALUES (*self.from_job(job))  (__setitem__)
Insert(p) ==
    /\ InBody(p) /\ Top(p).fn = "setitem"
    /\ db' = InsertOrReplace(db, from_job(Top(p).job))
    /\ SetTop(p, [Top(p) EXCEPT !.pc = "exit"])
    /\ UNCHANGED <<journal, inTxn, now, op, committed, seen>>

\* DELETE FROM table WHERE session = ?  (__delitem__)
Delete(p) ==
    /\ InBody(p) /\ Top(p).fn = "delitem"
    /\ db' = DeleteWhere(db, Top(p).key)
    /\ SetTop(p, [Top(p) EXCEPT !.pc = "exit"])
    /\ UNCHANGED <<journal, inTxn, now, op, committed, seen>>

\* SELECT count(*) FROM table  (__len__)
Count(p) ==
    /\ InBody(p) /\ Top(p).fn = "len"
    /\ SetTop(p, [Top(p) EXCEPT !.pc = "exit", !.idx = CountAll(db)])
    /\ UNCHANGED <<db, journal, inTxn, now, op, committed, seen>>

\* SELECT * FROM table ORDER BY priority DESC, added ASC  (__iter__)
SelectAll(p) ==
    /\ InBody(p) /\ Top(p).fn = "iter"
    /\ \E hits \in SelectOrdered(db) :
          SetTop(p, [Top(p) EXCEPT !.pc = "exit", !.hits = hits])
    /\ UNCHANGED <<db, journal, inTxn, now, op, committed, seen>>

\* a statement of a caller's own scope: it writes a row or deletes one
ScopeExecute(p) ==
    /\ InBody(p) /\ Top(p).fn = "scope"
    /\ Top(p).idx < MaxStmts
    /\ \E key \in Keys :
          \/ db' = InsertOrReplace(db, from_job(get_job(key, now)))
          \/ db' = DeleteWhere(db, key)
    /\ \E last \in BOOLEAN :
          SetTop(p, [Top(p) EXCEPT !.idx = Top(p).idx + 1,
                                   !.pc = IF last THEN "exit" ELSE "body"])
    /\ op' = [op EXCEPT ![p].arg = Top(p).idx + 1]
    /\ UNCHANGED <<journal, inTxn, now, committed, seen>>

\* an Exception raised in the body of a caller's own scope:
\* except Exception: self.db.rollback(); raise
ScopeRaise(p) ==
    /\ InBody(p) /\ Top(p).fn = "scope"
    /\ rollback(p)
    /\ Finish(p, Raise("Exception", "boom"))
    /\ UNCHANGED now

\* a KeyboardInterrupt raised in the body of a scope: `except Exception` does
\* not catch it and the `else` branch does not run; only cursor.close() does
Interrupt(p) ==
    /\ InBody(p)
    /\ Finish(p, Raise("KeyboardInterrupt", ""))
    /\ UNCHANGED <<db, journal, inTxn, now, committed, seen>>

\* what the method hands back after its scope
Result(f) ==
    CASE f.fn = "getitem" ->
            IF f.hits = <<>> THEN Raise("KeyError", f.key)
            ELSE IF Len(f.hits) > 1 THEN Raise("ValueError", "Found multiple jobs")
            ELSE Ok(to_job(f.hits[1]))
      [] f.fn = "contains" -> Ok(f.hits # <<>>)
      [] f.fn = "len" -> Ok(f.idx)
      [] f.fn = "iter" -> Ok([i \in 1..Len(f.hits) |-> to_job(f.hits[i])])
      [] OTHER -> Ok(None)

\* the body ended normally: else: self.db.commit(), and the method returns
Commit(p) ==
    /\ Running(p) /\ Top(p).fn \in Scoped /\ Top(p).pc = "exit"
    /\ commit(p)
    /\ Finish(p, Result(Top(p)))
    /\ UNCHANGED now

\* the results a call that only reads can hand back when it runs from its
\* first frames `stk` to its end on table `tbl`, no other process writing
RECURSIVE Observe(_, _, _)
Observe(stk, tbl, t) ==
    LET f == stk[Len(stk)]
        rest == SubSeq(stk, 1, Len(stk) - 1)
        fetched == CASE f.fn \in {"getitem", "contains"} -> Listings(SelectWhere(tbl, f.key))
                     [] f.fn = "iter" -> SelectOrdered(tbl)
                     [] OTHER -> {<<>>}
        results == {Result([f EXCEPT !.hits = hits, !.idx = CountAll(tbl)]) : hits \in fetched}
    IN  UNION { LET res == Resume(rest, r, t)
                IN  IF res.stack = <<>> THEN {res.ret} ELSE Observe(res.stack, tbl, t)
                : r \in results }

(***************************************************************************)
(* The caller's work inside `with update_status(queue, job):`.             *)
(***************************************************************************)
Work(p, how, msg, f, frames) ==
    /\ At(p, "update_status", "work")
    /\ stack' = [stack EXCEPT ![p] = Rest(p) \o <<f>> \o frames]
    /\ op' = [op EXCEPT ![p].arg = IF op[p].name = "update_status"
                                   THEN [msg |-> msg, work |-> how] ELSE op[p].arg]
    /\ UNCHANGED <<db, journal, inTxn, now, committed, seen>>

\* else: queue.set_finished(job)
WorkReturns(p) ==
    Work(p, "returns", "", [Top(p) EXCEPT !.pc = "set_finished"],
         Transition(Top(p), FinishedKwargs, now))

\* except BaseException as exc: isinstance(exc, Exception): queue.set_errored(job, exc)
WorkRaises(p, msg) ==
    Work(p, "raises", msg, [Top(p) EXCEPT !.pc = "set_errored"],
         Transition(Top(p), ErroredKwargs(msg), now))

\* except BaseException: KeyboardInterrupt, SystemExit: queue.set_queued(job); raise
WorkInterrupted(p) ==
    Work(p, "interrupted", "", [Top(p) EXCEPT !.pc = "set_queued", !.exc = "KeyboardInterrupt"],
         Transition(Top(p), QueuedKwargs, now))

\* time passes
Tick ==
    /\ now < MaxTime
    /\ now' = now + 1
    /\ UNCHANGED <<db, journal, inTxn, stack, op, committed, seen>>

(***************************************************************************)
(* Specifications.                                                         *)
(***************************************************************************)
Step(p, keys) ==
    \/ \E key \in keys : GetItem(p, key)
    \/ \E key \in keys : \E job \in JobArgs(key, now, p) : SetItem(p, key, job)
    \/ \E key \in keys : \E session \in Keys \ {key} :
          \E job \in JobArgs(session, now, p) : SetItemMismatch(p, key, job)
    \/ \E key \in keys : DelItem(p, key)
    \/ \E key \in keys : Contains(p, key)
    \/ LenCall(p)
    \/ Iter(p)
    \/ \E key \in keys : \E kwargs \in KwargsArgs : Update(p, key, kwargs)
    \/ \E key \in keys : \E kwargs \in KwargsArgs : AddOrUpdate(p, key, kwargs)
    \/ \E key \in keys : SetFinished(p, key)
    \/ \E key \in keys : SetStarted(p, key)
    \/ \E key \in keys : SetQueued(p, key)
    \/ \E key \in keys : \E error \in Messages : SetErrored(p, key, error)
    \/ \E key \in keys : IsStarted(p, key)
    \/ NextCall(p)
    \/ \E key \in keys : UpdateStatus(p, key)
    \/ Scope(p)
    \/ Begin(p)
    \/ BeginNested(p)
    \/ Select(p)
    \/ Insert(p)
    \/ Delete(p)
    \/ Count(p)
    \/ SelectAll(p)
    \/ ScopeExecute(p)
    \/ ScopeRaise(p)
    \/ Interrupt(p)
    \/ Commit(p)
    \/ WorkReturns(p)
    \/ \E msg \in Messages : WorkRaises(p, msg)
    \/ WorkInterrupted(p)

\* one process alone, making one call on the queue: no other writer, so no
\* lock is ever found taken
NextSolo ==
    \/ Step(Solo, Keys)
    \/ Tick

SpecSolo == Init /\ [][NextSolo]_vars

\* the processes share the database, each making one call about the same session
SharedKeys == {"S1"}

InitShared == InitWith(Tables(SharedKeys))

Next ==
    \/ \E p \in Procs : Step(p, SharedKeys)
    \/ \E p \in Procs : BeginLocked(p)

Spec == InitShared /\ [][Next]_vars

\* the processes are workers, each running its loop on the shared table,
\* around work that completes normally
NextWorkers ==
    \E p \in Procs :
        \/ Worker(p)
        \/ Begin(p)
        \/ BeginLocked(p)
        \/ Select(p)
        \/ SelectAll(p)
        \/ Insert(p)
        \/ Commit(p)
        \/ WorkReturns(p)

SpecWorkers == InitShared /\ [][NextWorkers]_vars

\* one worker, fairly scheduled, runs its loop on a queue of queued jobs,
\* around work that completes normally; no other process, no lock timeout
QueuedTables == {tbl \in Tables(Keys) : \A r \in tbl : r.started = NULL}

InitLoop == InitWith(QueuedTables)

NextLoop ==
    \/ Worker(Solo)
    \/ Begin(Solo)
    \/ Select(Solo)
    \/ SelectAll(Solo)
    \/ Insert(Solo)
    \/ Commit(Solo)
    \/ WorkReturns(Solo)

SpecLoop == InitLoop /\ [][NextLoop]_vars /\ WF_vars(NextLoop)

(***************************************************************************)
(* Properties.                                                             *)
(***************************************************************************)
InScope(p) == Running(p) /\ Top(p).fn \in Scoped /\ Top(p).pc \in {"body", "exit"}

\* C1: at most one process has an exclusive transaction open, and a process
\* that is in the body of a scope, where the statements on the table run,
\* has one open.
C1_MutualExclusion ==
    /\ \A p, q \in Procs : inTxn[p] /\ inTxn[q] => p = q
    /\ \A p \in Procs : InScope(p) => inTxn[p]

\* one process is in the body of its scope while the other asks for the lock
C1_Witness ==
    \E p, q \in Procs :
        /\ p # q
        /\ InBody(p) /\ inTxn[p]
        /\ Running(q) /\ Top(q).fn \in Scoped /\ Top(q).pc = "begin"

\* p's call `name` ends in this step
Ends(p, name) == op[p].name = name /\ Running(p) /\ stack'[p] = <<>>

\* C2: the table never holds two rows of one session, and when an
\* insert-or-replace of job j commits, the one row of j's session is j in
\* every field; so after concurrent writers the row is the job of the
\* writer that committed last.
C2_UniqueLastWriterWins ==
    /\ [](\A r1, r2 \in db : r1.session = r2.session => r1 = r2)
    /\ [][\A p \in Procs :
            Ends(p, "setitem") /\ op'[p].ret.kind = "ok"
                => SelectWhere(db', op[p].key) = {op[p].arg}]_vars

\* two processes have written different jobs for the same session; the row
\* is the job of one of them
C2_Witness ==
    \E p, q \in Procs :
        /\ p # q
        /\ Done(p) /\ op[p].name = "setitem" /\ op[p].ret.kind = "ok"
        /\ Done(q) /\ op[q].name = "setitem" /\ op[q].ret.kind = "ok"
        /\ op[p].key = op[q].key /\ op[p].arg # op[q].arg
        /\ SelectWhere(db, op[q].key) = {op[q].arg}

\* the row of `key`, and what is_started(key) hands back on the table as it is
Row(key) == CHOOSE r \in SelectWhere(db, key) : TRUE
IsStartedNow(key) == Observe(CallIsStarted(key), db, now)

\* p's call `name` has returned normally
Returned(p, name) == Done(p) /\ op[p].name = name /\ op[p].ret.kind = "ok"

\* p's guarded execution is over, its work ended `how`, and no scope of it
\* was interrupted
Guarded(p, how) ==
    /\ Done(p) /\ op[p].name = "update_status" /\ op[p].arg.work = how
    /\ ~inTxn[p]

\* C3: next() hands back the first job, in the order priority descending
\* then added ascending, whose `started` is null, and None when every job
\* has `started` set.
C3_NextFirstUnclaimed ==
    \A p \in Procs :
        Returned(p, "next") =>
            LET unclaimed == {r \in db : r.started = NULL}
                first == {r \in unclaimed : \A r2 \in unclaimed : InOrder(r, r2)}
            IN  IF unclaimed = {}
                THEN op[p].ret.val = NoJob
                ELSE op[p].ret.val \in {to_job(r) : r \in first}

\* C4: after set_started(k) is_started(k) is true; after set_finished(k) the
\* job has finished = 1 and is_started(k) is false.
C4_StartedThenFinished ==
    \A p \in Procs :
        /\ Returned(p, "set_started") => IsStartedNow(op[p].key) = {Ok(TRUE)}
        /\ Returned(p, "set_finished") =>
              /\ Row(op[p].key).finished = 1
              /\ IsStartedNow(op[p].key) = {Ok(FALSE)}

\* C5: after set_queued(k) the row of k has started, hostname, finished and
\* error null, and is_started(k) is false.
C5_SetQueuedClears ==
    \A p \in Procs :
        Returned(p, "set_queued") =>
            /\ Row(op[p].key).started = NULL
            /\ Row(op[p].key).hostname = NULLSTR
            /\ Row(op[p].key).finished = NULL
            /\ Row(op[p].key).error = NULLSTR
            /\ IsStartedNow(op[p].key) = {Ok(FALSE)}

\* C6: when the work inside update_status raises an Exception, the caller
\* sees a normal return, and the job has a non-empty error, finished = 0,
\* started and hostname set, and is_started false.
C6_FailureRecorded ==
    \A p \in Procs :
        Guarded(p, "raises") =>
            /\ op[p].ret.kind = "ok"
            /\ TruthyStr(Row(op[p].key).error)
            /\ Row(op[p].key).finished = 0
            /\ Row(op[p].key).started # NULL
            /\ Row(op[p].key).hostname = p
            /\ IsStartedNow(op[p].key) = {Ok(FALSE)}

\* C7: when the work inside update_status is interrupted, the interruption
\* reaches the caller, and the job has started, hostname, finished and error
\* cleared, so that next() may hand it to another worker.
C7_InterruptionRequeues ==
    \A p \in Procs :
        Guarded(p, "interrupted") =>
            /\ op[p].ret.kind = "exc" /\ op[p].ret.exc = "KeyboardInterrupt"
            /\ Row(op[p].key).started = NULL
            /\ Row(op[p].key).hostname = NULLSTR
            /\ Row(op[p].key).finished = NULL
            /\ Row(op[p].key).error = NULLSTR
            /\ IsStartedNow(op[p].key) = {Ok(FALSE)}

\* C8: while the work inside update_status runs, set_started is committed:
\* the job has hostname = the worker and is_started is true; when the work
\* returns, set_finished alone is applied: finished = 1, is_started false,
\* and the claim (started, hostname) stays as set_started left it.
C8_GuardedOrdering ==
    \A p \in Procs :
        /\ At(p, "update_status", "work") =>
              /\ ~inTxn[p]
              /\ Row(Top(p).key).started # NULL
              /\ Row(Top(p).key).hostname = p
              /\ IsStartedNow(Top(p).key) = {Ok(TRUE)}
        /\ Guarded(p, "returns") =>
              /\ op[p].ret.kind = "ok"
              /\ Row(op[p].key).finished = 1
              /\ Row(op[p].key).started # NULL
              /\ Row(op[p].key).hostname = p
              /\ IsStartedNow(op[p].key) = {Ok(FALSE)}

\* p's scope fails with an Exception in this step: its 'begin exclusive' is
\* refused, or its body raises
ScopeFails(p) == BeginLocked(p) \/ BeginNested(p) \/ ScopeRaise(p)

Reading == {"getitem", "contains", "len", "iter"}

\* C9: a scope that fails with an Exception, in its body or because it
\* cannot get the lock, leaves the table as it was before the scope began,
\* holds no lock afterwards, and its error reaches the caller; the table
\* other processes see changes only when a scope exits normally, and then
\* to all of that scope's writes at once; no process reads a table that
\* holds writes of a scope that has not committed.
C9_AtomicCommitOrRollback ==
    /\ [](/\ \A p \in Procs : inTxn[p] => journal[p] = committed
          /\ (\A p \in Procs : ~inTxn[p]) => db = committed
          /\ \A p \in Procs : InBody(p) /\ Top(p).fn \in Reading => db = committed
          /\ \A p \in Procs :
                Done(p) /\ op[p].ret.kind = "exc" /\ op[p].ret.exc \notin BaseOnly
                    => ~inTxn[p])
    /\ [][/\ \A p \in Procs :
              ScopeFails(p) =>
                  /\ committed' = committed
                  /\ db' = IF \E q \in Procs \ {p} : inTxn[q] THEN db ELSE committed
                  /\ ~inTxn'[p]
                  /\ \A q \in Procs \ {p} : inTxn'[q] = inTxn[q]
                  /\ op[p].name # "update_status" =>
                        /\ stack'[p] = <<>>
                        /\ op'[p].ret.kind = "exc" /\ op'[p].ret.exc \notin BaseOnly
          /\ committed' # committed =>
                \E p \in Procs :
                    /\ Running(p) /\ Top(p).fn \in Scoped /\ Top(p).pc = "exit"
                    /\ inTxn[p] /\ ~inTxn'[p]
                    /\ db' = db /\ committed' = db]_vars

\* one process's own scope has raised after executing a statement, another
\* has been refused the lock, and the table is the committed one
C9_Witness ==
    \E p, q \in Procs :
        /\ p # q
        /\ Done(p) /\ op[p].name = "scope" /\ op[p].arg > 0
        /\ op[p].ret.kind = "exc" /\ op[p].ret.exc = "Exception"
        /\ Done(q) /\ op[q].ret.kind = "exc" /\ op[q].ret.val = "database is locked"
        /\ db = committed

\* C10: when insert-or-replace(k, j) returns, with the table `committed`
\* before it and no other writer: contains(k) is true, lookup(k) hands back
\* a job equal to j in all seven fields, k has that one row and nothing of
\* the old one, count() has grown by one iff k had no row, and the rows of
\* the other keys are as they were.
C10_InsertLookupRoundTrip ==
    [][\A p \in Procs :
          Ends(p, "setitem") /\ op'[p].ret.kind = "ok" =>
              LET k == op[p].key
                  j == op[p].arg
              IN  /\ Observe(CallContains(k), db', now) = {Ok(TRUE)}
                  /\ \A got \in Observe(CallGetItem(k), db', now) :
                        /\ got.kind = "ok"
                        /\ DOMAIN got.val = Columns
                        /\ \A c \in Columns : got.val[c] = j[c]
                  /\ SelectWhere(db', k) = {from_job(j)}
                  /\ CountAll(db') = CountAll(committed)
                                        + (IF SelectWhere(committed, k) = {} THEN 1 ELSE 0)
                  /\ \A k2 \in Keys \ {k} :
                        SelectWhere(db', k2) = SelectWhere(committed, k2)]_vars

\* an insert-or-replace is about to commit a job with every field set over
\* a row of its key that differs from it, next to a row of another key
C10_Witness ==
    \E p \in Procs :
        /\ At(p, "setitem", "exit") /\ op[p].name = "setitem"
        /\ op[p].arg.error = "boom"
        /\ SelectWhere(db, op[p].key) = {from_job(op[p].arg)}
        /\ SelectWhere(committed, op[p].key) \notin {{}, {from_job(op[p].arg)}}
        /\ \E k2 \in Keys \ {op[p].key} : SelectWhere(committed, k2) # {}

\* C11: when iterate() returns, the list it hands back holds every job of
\* the table as it stood in the scope's transaction exactly once, sorted by
\* priority descending and, among equal priorities, by added ascending.
C11_IterationOrder ==
    [][\A p \in Procs :
          Ends(p, "iter") /\ op'[p].ret.kind = "ok" =>
              LET jobs == op'[p].ret.val
              IN  /\ Len(jobs) = Cardinality(db)
                  /\ {jobs[i] : i \in 1..Len(jobs)} = {to_job(r) : r \in db}
                  /\ \A i, j \in 1..Len(jobs) :
                        i < j =>
                            \/ jobs[i].priority > jobs[j].priority
                            \/ /\ jobs[i].priority = jobs[j].priority
                               /\ jobs[i].added <= jobs[j].added]_vars

\* iterate() has handed back two jobs of one priority, the older first
C11_Witness ==
    \E p \in Procs :
        /\ Returned(p, "iter")
        /\ Len(op[p].ret.val) = 2
        /\ op[p].ret.val[1].priority = op[p].ret.val[2].priority
        /\ op[p].ret.val[1].added < op[p].ret.val[2].added

\* p's call `name` ends in this step, and no interruption has cut it short
Completes(p, name) == Ends(p, name) /\ op'[p].ret.exc \notin BaseOnly

\* C12: for a key with no row contains(k) is false and lookup(k) raises
\* KeyError; when delete(k) returns, with the table `committed` before it, it
\* has raised nothing, k has no row, contains(k) is false, and the rows of
\* the other keys are as they were; on a key with no row it leaves the whole
\* table as it was.
C12_AbsenceAndDelete ==
    [][\A p \in Procs :
          /\ Completes(p, "contains") /\ SelectWhere(db, op[p].key) = {}
                => op'[p].ret = Ok(FALSE)
          /\ Completes(p, "getitem") /\ SelectWhere(db, op[p].key) = {}
                => op'[p].ret.kind = "exc" /\ op'[p].ret.exc = "KeyError"
          /\ Completes(p, "delitem") =>
                /\ op'[p].ret = Ok(None)
                /\ SelectWhere(db', op[p].key) = {}
                /\ Observe(CallContains(op[p].key), db', now) = {Ok(FALSE)}
                /\ \A k2 \in Keys \ {op[p].key} :
                      SelectWhere(db', k2) = SelectWhere(committed, k2)
                /\ SelectWhere(committed, op[p].key) = {} => db' = committed]_vars

\* a delete of a key with no row is about to commit, next to the row of
\* another key
C12_Witness ==
    \E p \in Procs :
        /\ At(p, "delitem", "exit") /\ op[p].name = "delitem"
        /\ SelectWhere(committed, op[p].key) = {}
        /\ committed # {}
        /\ db = committed

\* C13: when set_started(k) by one process and update(k, priority = x) or
\* set_errored(k, e) by another have both returned, in whatever way they
\* interleaved, the row of k carries the changes of both.
C13_NoLostUpdate ==
    \A p, q \in Procs :
        /\ p # q
        /\ Returned(p, "set_started")
        /\ op[q].key = op[p].key
        /\ \/ Returned(q, "update") /\ "priority" \in DOMAIN op[q].arg
           \/ Returned(q, "set_errored")
        => /\ Row(op[p].key).started # NULL
           /\ Row(op[p].key).hostname = p
           /\ Row(op[p].key).finished = 0
           /\ Returned(q, "update") => Row(op[p].key).priority = op[q].arg.priority
           /\ Returned(q, "set_errored") => Row(op[p].key).error = op[q].arg

\* C14: two workers that each took their job from next() and claimed it
\* with set_started never both run the guarded work of one session.
C14_ExclusiveClaim ==
    \A p, q \in Procs :
        /\ op[p].name = "worker" /\ At(p, "update_status", "work")
        /\ op[q].name = "worker" /\ At(q, "update_status", "work")
        /\ Top(p).key = Top(q).key
        => p = q

\* the fields a state transition names
Named(p) ==
    CASE op[p].name = "update" -> DOMAIN op[p].arg
      [] op[p].name = "add_or_update" ->
            DOMAIN op[p].arg \cup {"started", "hostname", "finished", "error"}
      [] op[p].name = "set_started" -> {"started", "hostname", "finished"}
      [] op[p].name = "set_finished" -> {"finished"}
      [] op[p].name = "set_errored" -> {"error"}
      [] op[p].name = "set_queued" -> {"started", "hostname", "finished", "error"}
      [] OTHER -> {}

Transitions ==
    {"update", "set_finished", "set_started", "set_queued", "set_errored", "add_or_update"}

\* C15: when a state transition on a key that had a row returns, with the
\* table `committed` before its write and no other writer, the key has one row,
\* every field the transition does not name is as it was (session and added
\* among them), and the rows of the other keys are as they were.
C15_Frame ==
    [][\A p \in Procs :
          /\ op[p].name \in Transitions
          /\ Ends(p, op[p].name) /\ op'[p].ret.kind = "ok"
          /\ SelectWhere(committed, op[p].key) # {}
          => /\ \A new \in SelectWhere(db', op[p].key) :
                   \A old \in SelectWhere(committed, op[p].key) :
                       \A c \in Columns \ Named(p) : new[c] = old[c]
             /\ Cardinality(SelectWhere(db', op[p].key)) = 1
             /\ \A k2 \in Keys \ {op[p].key} :
                   SelectWhere(db', k2) = SelectWhere(committed, k2)]_vars

\* set_errored has recorded an error on a finished job, which is still
\* finished and claimed, next to the row of another key
C15_Witness ==
    \E p \in Procs :
        /\ Returned(p, "set_errored") /\ op[p].arg = "boom"
        /\ Row(op[p].key).error = "boom"
        /\ Row(op[p].key).finished = 1
        /\ Row(op[p].key).hostname = PriorHost
        /\ \E k2 \in Keys \ {op[p].key} : SelectWhere(db, k2) # {}

\* the 'actively in progress' predicate on the rows of a key
InProgress(rows) ==
    \E r \in rows : TruthyNum(r.started) /\ ~TruthyNum(r.finished) /\ ~TruthyStr(r.error)

\* C16: the value is_started(k) hands back is the 'actively in progress'
\* predicate on the row of k as the store held it at some instant of the
\* call; so it is never true when the job was in progress at no instant of
\* the call.
C16_IsStartedConsistent ==
    \A p \in Procs :
        Returned(p, "is_started") =>
            \E rows \in seen[p] : op[p].ret.val = InProgress(rows)

\* C17: a process has a transaction open only while it is inside a scope;
\* whichever way it left its scopes, by return, by an Exception or by an
\* interruption, it holds no lock afterwards.
C17_LockReleased ==
    \A p \in Procs : inTxn[p] => InScope(p)

\* C18: next() ends with a job or with None; the only error it may end
\* with, interruptions aside, is the lock timeout.
C18_NextJobOrNone ==
    \A p \in Procs :
        Done(p) /\ op[p].name = "next" /\ op[p].ret.exc \notin BaseOnly =>
            \/ op[p].ret.kind = "ok"
            \/ op[p].ret.exc = "OperationalError" /\ op[p].ret.val = "database is locked"

\* C19: the worker eventually gets None from next() and stops, every job
\* eventually has finished = 1 for good, and the worker runs no job twice.
C19_WorkerProgress ==
    /\ <>Returned(Solo, "worker")
    /\ <>[](\A r \in db : r.finished = 1)
    /\ [](op[Solo].name = "worker" /\ Running(Solo) => stack[Solo][1].idx = 0)

\* C20: after set_queued(k) or add_or_update(k, ...) the stored `added` of k
\* is a time of that call, between its start and now; and a row that update,
\* add_or_update or a set_* transition creates for a key that had none has
\* the creation time as `added`.
C20_AddedIsRequeueTime ==
    /\ [](\A p \in Procs :
            Returned(p, "set_queued") \/ Returned(p, "add_or_update") =>
                /\ op[p].at <= Row(op[p].key).added
                /\ Row(op[p].key).added <= now)
    /\ [][\A p \in Procs :
            /\ op[p].name \in Transitions
            /\ At(p, "setitem", "exit") /\ ~inTxn'[p]
            /\ SelectWhere(committed, Top(p).key) = {}
            => \A r \in SelectWhere(db', Top(p).key) :
                  op[p].at <= r.added /\ r.added <= now]_vars

====
